---- MODULE Spec2Model ----
(***************************************************************************)
(* Human approval gate of the Zava clothing concept workflow               *)
(* (src/core/approval.py) and its report generator                         *)
(* (src/services/report_generator.py).                                     *)
(*                                                                         *)
(* Python values are tagged records: the field "kind" is the Python type,  *)
(* the other fields are the attributes the object exposes, so that         *)
(* hasattr(v, a) is a \in DOMAIN v.  A Python str is the sequence of its   *)
(* characters, each a one-character string, so that lower() and strip()    *)
(* are computed character by character as CPython computes them.  A       *)
(* character that cannot be written in a string of this language is named  *)
(* by its code point, "U+" and four to six hexadecimal digits.             *)
(***************************************************************************)
EXTENDS Integers, Sequences, FiniteSets, TLC

\* ------------------------------------------------------------------ bounds
\* Longest run of whitespace put before and after a word of the human reply.
MaxPad == 1
\* Longest reply enumerated exhaustively over ShortAlphabet.
MaxShort == 2
\* Submissions one workflow run takes through the approval manager.
MaxSubmissions == 2
\* Slides of a pitch deck and concept elements of one slide.
MaxSlides == 2
MaxPerSlide == 6

\* ------------------------------------------------------- Python str model
\* A character is a one-character string; a character that cannot be written in
\* a string of this language is named by its code point ("U+000B", "U+00A0").
\* The characters of the model are the ASCII ones, the 29 characters str.strip()
\* removes, the letters of the fixed Korean texts (which have no case) and three
\* cased letters outside ASCII: U+00C9, which lowers to U+00E9, U+212A, which
\* lowers to ASCII k, and U+0130, which lowers to two characters.
UpperLetters ==
  <<"A","B","C","D","E","F","G","H","I","J","K","L","M",
    "N","O","P","Q","R","S","T","U","V","W","X","Y","Z">>

LowerLetters ==
  <<"a","b","c","d","e","f","g","h","i","j","k","l","m",
    "n","o","p","q","r","s","t","u","v","w","x","y","z">>

\* The 29 characters str.strip() removes.
Whitespace ==
  {"\t", "\n", "U+000B", "\f", "\r", "U+001C", "U+001D", "U+001E", "U+001F", " ",
   "U+0085", "U+00A0", "U+1680", "U+2000", "U+2001", "U+2002", "U+2003", "U+2004",
   "U+2005", "U+2006", "U+2007", "U+2008", "U+2009", "U+200A", "U+2028", "U+2029",
   "U+202F", "U+205F", "U+3000"}

\* str.lower() of a one-character text: a text, since U+0130 lowers to two characters
LowerChar(c) ==
  IF \E i \in 1..Len(UpperLetters) : UpperLetters[i] = c
  THEN <<LowerLetters[CHOOSE i \in 1..Len(UpperLetters) : UpperLetters[i] = c]>>
  ELSE CASE c = "U+00C9" -> <<"U+00E9">>
         [] c = "U+212A" -> <<"k">>
         [] c = "U+0130" -> <<"i", "U+0307">>
         [] OTHER -> <<c>>

UpperChar(c) ==
  IF \E i \in 1..Len(LowerLetters) : LowerLetters[i] = c
  THEN UpperLetters[CHOOSE i \in 1..Len(LowerLetters) : LowerLetters[i] = c]
  ELSE IF c = "U+00E9" THEN "U+00C9" ELSE c

\* str.lower(): the characters lowered one by one, in order (the text is halved
\* rather than walked, which keeps the evaluation shallow on a long text)
RECURSIVE Lower(_)
Lower(s) ==
  IF s = <<>> THEN <<>>
  ELSE IF Len(s) = 1 THEN LowerChar(s[1])
  ELSE Lower(SubSeq(s, 1, Len(s) \div 2)) \o Lower(SubSeq(s, (Len(s) \div 2) + 1, Len(s)))

\* str.upper()
Upper(s) == IF s = <<>> THEN <<>> ELSE [i \in 1..Len(s) |-> UpperChar(s[i])]

SetMin(S) == CHOOSE x \in S : \A y \in S : x <= y
SetMax(S) == CHOOSE x \in S : \A y \in S : x >= y

\* str.strip(): drops the leading and the trailing whitespace, keeps the inner.
Strip(s) ==
  LET keep == {i \in 1..Len(s) : s[i] \notin Whitespace}
  IN  IF keep = {} THEN <<>> ELSE SubSeq(s, SetMin(keep), SetMax(keep))

\* ----------------------------------------------------- Python value model
PyNone == [kind |-> "NoneType"]
PyStr(t) == [kind |-> "str", text |-> t]
\* an int, and the empty dict {}
PyInt(n) == [kind |-> "int", value |-> n]
PyEmptyDict == [kind |-> "dict", len |-> 0]

\* hasattr(v, name) for the attributes the code probes: the fields of the record
\* other than the type and the content of a built-in value
HasAttr(v, name) == name \in (DOMAIN v) \ {"kind", "text", "value", "len"}

\* bool(v): None, "", 0 and an empty container are falsy; an instance of the
\* dataclasses and a plain object are truthy
Truthy(v) ==
  CASE v.kind = "NoneType" -> FALSE
    [] v.kind = "str" -> v.text # <<>>
    [] v.kind = "int" -> v.value # 0
    [] v.kind = "dict" -> v.len # 0
    [] OTHER -> TRUE

\* The request_id the framework draws for a message (a uuid4), kept as one fixed text.
RequestId == PyStr(<<"r","i","d">>)

\* agent_framework.RequestResponse(data, original_request, request_id)
RequestResponse(data, original_request) ==
  [kind |-> "RequestResponse", data |-> data, original_request |-> original_request,
   request_id |-> RequestId]

\* dataclass ClothingConceptApprovalRequest(question, context, analysis_content),
\* with the fields of RequestInfoMessage
ClothingConceptApprovalRequest(question, context, analysis_content) ==
  [kind |-> "ClothingConceptApprovalRequest", request_id |-> RequestId,
   source_executor_id |-> PyNone, question |-> question,
   context |-> context, analysis_content |-> analysis_content]

\* dataclass ZavaApprovalDecision(approved, feedback, analysis_content)
ZavaApprovalDecision(approved, feedback, analysis_content) ==
  [kind |-> "ZavaApprovalDecision", approved |-> approved,
   feedback |-> feedback, analysis_content |-> analysis_content]

StrNone == <<"N","o","n","e">>
StrTrue == <<"T","r","u","e">>
StrFalse == <<"F","a","l","s","e">>
Digits == <<"0","1","2","3","4","5","6","7","8","9">>

\* str(n) of a natural number
RECURSIVE Decimal(_)
Decimal(n) == IF n < 10 THEN <<Digits[n + 1]>> ELSE Decimal(n \div 10) \o <<Digits[(n % 10) + 1]>>

\* ord(c): the characters U+0020 .. U+007E in order, each written as itself
\* except the double quote, the backslash and the grave accent, which are named
\* by code point
AsciiChars ==
  <<" ", "!", "U+0022", "#", "$", "%", "&", "'", "(", ")", "*", "+", ",", "-", ".",
    "/", "0", "1", "2", "3", "4", "5", "6", "7", "8", "9", ":", ";", "<", "=", ">",
    "?", "@", "A", "B", "C", "D", "E", "F", "G", "H", "I", "J", "K", "L", "M", "N",
    "O", "P", "Q", "R", "S", "T", "U", "V", "W", "X", "Y", "Z", "[", "U+005C", "]",
    "^", "_", "U+0060", "a", "b", "c", "d", "e", "f", "g", "h", "i", "j", "k", "l", "m",
    "n", "o", "p", "q", "r", "s", "t", "u", "v", "w", "x", "y", "z", "{", "|", "}", "~">>

HexUpper == <<"0","1","2","3","4","5","6","7","8","9","A","B","C","D","E","F">>
HexLower == <<"0","1","2","3","4","5","6","7","8","9","a","b","c","d","e","f">>

\* the number a string of upper-case hexadecimal digits writes
RECURSIVE HexValue(_)
HexValue(h) ==
  IF Len(h) = 0 THEN 0
  ELSE 16 * HexValue(SubSeq(h, 1, Len(h) - 1))
         + (CHOOSE d \in 0..15 : HexUpper[d + 1] = SubSeq(h, Len(h), Len(h)))

\* ord(c): the code point of a character
Ord(c) ==
  IF Len(c) > 1 THEN HexValue(SubSeq(c, 3, Len(c)))
  ELSE CASE c = "\t" -> 9
         [] c = "\n" -> 10
         [] c = "\f" -> 12
         [] c = "\r" -> 13
         [] OTHER -> 31 + (CHOOSE i \in 1..Len(AsciiChars) : AsciiChars[i] = c)

\* The code points str.isprintable() rejects (Unicode 14.0: the categories Cc, Cf,
\* Cs, Co, Cn, Zl, Zp, and Zs but for the space), as ranges lo..hi in order.
NonPrintable ==
  <<<<0,31>>, <<127,160>>, <<173,173>>, <<888,889>>, <<896,899>>, <<907,907>>,
    <<909,909>>, <<930,930>>, <<1328,1328>>, <<1367,1368>>, <<1419,1420>>,
    <<1424,1424>>, <<1480,1487>>, <<1515,1518>>, <<1525,1541>>, <<1564,1564>>,
    <<1757,1757>>, <<1806,1807>>, <<1867,1868>>, <<1970,1983>>, <<2043,2044>>,
    <<2094,2095>>, <<2111,2111>>, <<2140,2141>>, <<2143,2143>>, <<2155,2159>>,
    <<2191,2199>>, <<2274,2274>>, <<2436,2436>>, <<2445,2446>>, <<2449,2450>>,
    <<2473,2473>>, <<2481,2481>>, <<2483,2485>>, <<2490,2491>>, <<2501,2502>>,
    <<2505,2506>>, <<2511,2518>>, <<2520,2523>>, <<2526,2526>>, <<2532,2533>>,
    <<2559,2560>>, <<2564,2564>>, <<2571,2574>>, <<2577,2578>>, <<2601,2601>>,
    <<2609,2609>>, <<2612,2612>>, <<2615,2615>>, <<2618,2619>>, <<2621,2621>>,
    <<2627,2630>>, <<2633,2634>>, <<2638,2640>>, <<2642,2648>>, <<2653,2653>>,
    <<2655,2661>>, <<2679,2688>>, <<2692,2692>>, <<2702,2702>>, <<2706,2706>>,
    <<2729,2729>>, <<2737,2737>>, <<2740,2740>>, <<2746,2747>>, <<2758,2758>>,
    <<2762,2762>>, <<2766,2767>>, <<2769,2783>>, <<2788,2789>>, <<2802,2808>>,
    <<2816,2816>>, <<2820,2820>>, <<2829,2830>>, <<2833,2834>>, <<2857,2857>>,
    <<2865,2865>>, <<2868,2868>>, <<2874,2875>>, <<2885,2886>>, <<2889,2890>>,
    <<2894,2900>>, <<2904,2907>>, <<2910,2910>>, <<2916,2917>>, <<2936,2945>>,
    <<2948,2948>>, <<2955,2957>>, <<2961,2961>>, <<2966,2968>>, <<2971,2971>>,
    <<2973,2973>>, <<2976,2978>>, <<2981,2983>>, <<2987,2989>>, <<3002,3005>>,
    <<3011,3013>>, <<3017,3017>>, <<3022,3023>>, <<3025,3030>>, <<3032,3045>>,
    <<3067,3071>>, <<3085,3085>>, <<3089,3089>>, <<3113,3113>>, <<3130,3131>>,
    <<3141,3141>>, <<3145,3145>>, <<3150,3156>>, <<3159,3159>>, <<3163,3164>>,
    <<3166,3167>>, <<3172,3173>>, <<3184,3190>>, <<3213,3213>>, <<3217,3217>>,
    <<3241,3241>>, <<3252,3252>>, <<3258,3259>>, <<3269,3269>>, <<3273,3273>>,
    <<3278,3284>>, <<3287,3292>>, <<3295,3295>>, <<3300,3301>>, <<3312,3312>>,
    <<3315,3327>>, <<3341,3341>>, <<3345,3345>>, <<3397,3397>>, <<3401,3401>>,
    <<3408,3411>>, <<3428,3429>>, <<3456,3456>>, <<3460,3460>>, <<3479,3481>>,
    <<3506,3506>>, <<3516,3516>>, <<3518,3519>>, <<3527,3529>>, <<3531,3534>>,
    <<3541,3541>>, <<3543,3543>>, <<3552,3557>>, <<3568,3569>>, <<3573,3584>>,
    <<3643,3646>>, <<3676,3712>>, <<3715,3715>>, <<3717,3717>>, <<3723,3723>>,
    <<3748,3748>>, <<3750,3750>>, <<3774,3775>>, <<3781,3781>>, <<3783,3783>>,
    <<3790,3791>>, <<3802,3803>>, <<3808,3839>>, <<3912,3912>>, <<3949,3952>>,
    <<3992,3992>>, <<4029,4029>>, <<4045,4045>>, <<4059,4095>>, <<4294,4294>>,
    <<4296,4300>>, <<4302,4303>>, <<4681,4681>>, <<4686,4687>>, <<4695,4695>>,
    <<4697,4697>>, <<4702,4703>>, <<4745,4745>>, <<4750,4751>>, <<4785,4785>>,
    <<4790,4791>>, <<4799,4799>>, <<4801,4801>>, <<4806,4807>>, <<4823,4823>>,
    <<4881,4881>>, <<4886,4887>>, <<4955,4956>>, <<4989,4991>>, <<5018,5023>>,
    <<5110,5111>>, <<5118,5119>>, <<5760,5760>>, <<5789,5791>>, <<5881,5887>>,
    <<5910,5918>>, <<5943,5951>>, <<5972,5983>>, <<5997,5997>>, <<6001,6001>>,
    <<6004,6015>>, <<6110,6111>>, <<6122,6127>>, <<6138,6143>>, <<6158,6158>>,
    <<6170,6175>>, <<6265,6271>>, <<6315,6319>>, <<6390,6399>>, <<6431,6431>>,
    <<6444,6447>>, <<6460,6463>>, <<6465,6467>>, <<6510,6511>>, <<6517,6527>>,
    <<6572,6575>>, <<6602,6607>>, <<6619,6621>>, <<6684,6685>>, <<6751,6751>>,
    <<6781,6782>>, <<6794,6799>>, <<6810,6815>>, <<6830,6831>>, <<6863,6911>>,
    <<6989,6991>>, <<7039,7039>>, <<7156,7163>>, <<7224,7226>>, <<7242,7244>>,
    <<7305,7311>>, <<7355,7356>>, <<7368,7375>>, <<7419,7423>>, <<7958,7959>>,
    <<7966,7967>>, <<8006,8007>>, <<8014,8015>>, <<8024,8024>>, <<8026,8026>>,
    <<8028,8028>>, <<8030,8030>>, <<8062,8063>>, <<8117,8117>>, <<8133,8133>>,
    <<8148,8149>>, <<8156,8156>>, <<8176,8177>>, <<8181,8181>>, <<8191,8207>>,
    <<8232,8239>>, <<8287,8303>>, <<8306,8307>>, <<8335,8335>>, <<8349,8351>>,
    <<8385,8399>>, <<8433,8447>>, <<8588,8591>>, <<9255,9279>>, <<9291,9311>>,
    <<11124,11125>>, <<11158,11158>>, <<11508,11512>>, <<11558,11558>>,
    <<11560,11564>>, <<11566,11567>>, <<11624,11630>>, <<11633,11646>>,
    <<11671,11679>>, <<11687,11687>>, <<11695,11695>>, <<11703,11703>>,
    <<11711,11711>>, <<11719,11719>>, <<11727,11727>>, <<11735,11735>>,
    <<11743,11743>>, <<11870,11903>>, <<11930,11930>>, <<12020,12031>>,
    <<12246,12271>>, <<12284,12288>>, <<12352,12352>>, <<12439,12440>>,
    <<12544,12548>>, <<12592,12592>>, <<12687,12687>>, <<12772,12783>>,
    <<12831,12831>>, <<42125,42127>>, <<42183,42191>>, <<42540,42559>>,
    <<42744,42751>>, <<42955,42959>>, <<42962,42962>>, <<42964,42964>>,
    <<42970,42993>>, <<43053,43055>>, <<43066,43071>>, <<43128,43135>>,
    <<43206,43213>>, <<43226,43231>>, <<43348,43358>>, <<43389,43391>>,
    <<43470,43470>>, <<43482,43485>>, <<43519,43519>>, <<43575,43583>>,
    <<43598,43599>>, <<43610,43611>>, <<43715,43738>>, <<43767,43776>>,
    <<43783,43784>>, <<43791,43792>>, <<43799,43807>>, <<43815,43815>>,
    <<43823,43823>>, <<43884,43887>>, <<44014,44015>>, <<44026,44031>>,
    <<55204,55215>>, <<55239,55242>>, <<55292,63743>>, <<64110,64111>>,
    <<64218,64255>>, <<64263,64274>>, <<64280,64284>>, <<64311,64311>>,
    <<64317,64317>>, <<64319,64319>>, <<64322,64322>>, <<64325,64325>>,
    <<64451,64466>>, <<64912,64913>>, <<64968,64974>>, <<64976,65007>>,
    <<65050,65055>>, <<65107,65107>>, <<65127,65127>>, <<65132,65135>>,
    <<65141,65141>>, <<65277,65280>>, <<65471,65473>>, <<65480,65481>>,
    <<65488,65489>>, <<65496,65497>>, <<65501,65503>>, <<65511,65511>>,
    <<65519,65531>>, <<65534,65535>>, <<65548,65548>>, <<65575,65575>>,
    <<65595,65595>>, <<65598,65598>>, <<65614,65615>>, <<65630,65663>>,
    <<65787,65791>>, <<65795,65798>>, <<65844,65846>>, <<65935,65935>>,
    <<65949,65951>>, <<65953,65999>>, <<66046,66175>>, <<66205,66207>>,
    <<66257,66271>>, <<66300,66303>>, <<66340,66348>>, <<66379,66383>>,
    <<66427,66431>>, <<66462,66462>>, <<66500,66503>>, <<66518,66559>>,
    <<66718,66719>>, <<66730,66735>>, <<66772,66775>>, <<66812,66815>>,
    <<66856,66863>>, <<66916,66926>>, <<66939,66939>>, <<66955,66955>>,
    <<66963,66963>>, <<66966,66966>>, <<66978,66978>>, <<66994,66994>>,
    <<67002,67002>>, <<67005,67071>>, <<67383,67391>>, <<67414,67423>>,
    <<67432,67455>>, <<67462,67462>>, <<67505,67505>>, <<67515,67583>>,
    <<67590,67591>>, <<67593,67593>>, <<67638,67638>>, <<67641,67643>>,
    <<67645,67646>>, <<67670,67670>>, <<67743,67750>>, <<67760,67807>>,
    <<67827,67827>>, <<67830,67834>>, <<67868,67870>>, <<67898,67902>>,
    <<67904,67967>>, <<68024,68027>>, <<68048,68049>>, <<68100,68100>>,
    <<68103,68107>>, <<68116,68116>>, <<68120,68120>>, <<68150,68151>>,
    <<68155,68158>>, <<68169,68175>>, <<68185,68191>>, <<68256,68287>>,
    <<68327,68330>>, <<68343,68351>>, <<68406,68408>>, <<68438,68439>>,
    <<68467,68471>>, <<68498,68504>>, <<68509,68520>>, <<68528,68607>>,
    <<68681,68735>>, <<68787,68799>>, <<68851,68857>>, <<68904,68911>>,
    <<68922,69215>>, <<69247,69247>>, <<69290,69290>>, <<69294,69295>>,
    <<69298,69375>>, <<69416,69423>>, <<69466,69487>>, <<69514,69551>>,
    <<69580,69599>>, <<69623,69631>>, <<69710,69713>>, <<69750,69758>>,
    <<69821,69821>>, <<69827,69839>>, <<69865,69871>>, <<69882,69887>>,
    <<69941,69941>>, <<69960,69967>>, <<70007,70015>>, <<70112,70112>>,
    <<70133,70143>>, <<70162,70162>>, <<70207,70271>>, <<70279,70279>>,
    <<70281,70281>>, <<70286,70286>>, <<70302,70302>>, <<70314,70319>>,
    <<70379,70383>>, <<70394,70399>>, <<70404,70404>>, <<70413,70414>>,
    <<70417,70418>>, <<70441,70441>>, <<70449,70449>>, <<70452,70452>>,
    <<70458,70458>>, <<70469,70470>>, <<70473,70474>>, <<70478,70479>>,
    <<70481,70486>>, <<70488,70492>>, <<70500,70501>>, <<70509,70511>>,
    <<70517,70655>>, <<70748,70748>>, <<70754,70783>>, <<70856,70863>>,
    <<70874,71039>>, <<71094,71095>>, <<71134,71167>>, <<71237,71247>>,
    <<71258,71263>>, <<71277,71295>>, <<71354,71359>>, <<71370,71423>>,
    <<71451,71452>>, <<71468,71471>>, <<71495,71679>>, <<71740,71839>>,
    <<71923,71934>>, <<71943,71944>>, <<71946,71947>>, <<71956,71956>>,
    <<71959,71959>>, <<71990,71990>>, <<71993,71994>>, <<72007,72015>>,
    <<72026,72095>>, <<72104,72105>>, <<72152,72153>>, <<72165,72191>>,
    <<72264,72271>>, <<72355,72367>>, <<72441,72703>>, <<72713,72713>>,
    <<72759,72759>>, <<72774,72783>>, <<72813,72815>>, <<72848,72849>>,
    <<72872,72872>>, <<72887,72959>>, <<72967,72967>>, <<72970,72970>>,
    <<73015,73017>>, <<73019,73019>>, <<73022,73022>>, <<73032,73039>>,
    <<73050,73055>>, <<73062,73062>>, <<73065,73065>>, <<73103,73103>>,
    <<73106,73106>>, <<73113,73119>>, <<73130,73439>>, <<73465,73647>>,
    <<73649,73663>>, <<73714,73726>>, <<74650,74751>>, <<74863,74863>>,
    <<74869,74879>>, <<75076,77711>>, <<77811,77823>>, <<78895,82943>>,
    <<83527,92159>>, <<92729,92735>>, <<92767,92767>>, <<92778,92781>>,
    <<92863,92863>>, <<92874,92879>>, <<92910,92911>>, <<92918,92927>>,
    <<92998,93007>>, <<93018,93018>>, <<93026,93026>>, <<93048,93052>>,
    <<93072,93759>>, <<93851,93951>>, <<94027,94030>>, <<94088,94094>>,
    <<94112,94175>>, <<94181,94191>>, <<94194,94207>>, <<100344,100351>>,
    <<101590,101631>>, <<101641,110575>>, <<110580,110580>>, <<110588,110588>>,
    <<110591,110591>>, <<110883,110927>>, <<110931,110947>>, <<110952,110959>>,
    <<111356,113663>>, <<113771,113775>>, <<113789,113791>>, <<113801,113807>>,
    <<113818,113819>>, <<113824,118527>>, <<118574,118575>>, <<118599,118607>>,
    <<118724,118783>>, <<119030,119039>>, <<119079,119080>>, <<119155,119162>>,
    <<119275,119295>>, <<119366,119519>>, <<119540,119551>>, <<119639,119647>>,
    <<119673,119807>>, <<119893,119893>>, <<119965,119965>>, <<119968,119969>>,
    <<119971,119972>>, <<119975,119976>>, <<119981,119981>>, <<119994,119994>>,
    <<119996,119996>>, <<120004,120004>>, <<120070,120070>>, <<120075,120076>>,
    <<120085,120085>>, <<120093,120093>>, <<120122,120122>>, <<120127,120127>>,
    <<120133,120133>>, <<120135,120137>>, <<120145,120145>>, <<120486,120487>>,
    <<120780,120781>>, <<121484,121498>>, <<121504,121504>>, <<121520,122623>>,
    <<122655,122879>>, <<122887,122887>>, <<122905,122906>>, <<122914,122914>>,
    <<122917,122917>>, <<122923,123135>>, <<123181,123183>>, <<123198,123199>>,
    <<123210,123213>>, <<123216,123535>>, <<123567,123583>>, <<123642,123646>>,
    <<123648,124895>>, <<124903,124903>>, <<124908,124908>>, <<124911,124911>>,
    <<124927,124927>>, <<125125,125126>>, <<125143,125183>>, <<125260,125263>>,
    <<125274,125277>>, <<125280,126064>>, <<126133,126208>>, <<126270,126463>>,
    <<126468,126468>>, <<126496,126496>>, <<126499,126499>>, <<126501,126502>>,
    <<126504,126504>>, <<126515,126515>>, <<126520,126520>>, <<126522,126522>>,
    <<126524,126529>>, <<126531,126534>>, <<126536,126536>>, <<126538,126538>>,
    <<126540,126540>>, <<126544,126544>>, <<126547,126547>>, <<126549,126550>>,
    <<126552,126552>>, <<126554,126554>>, <<126556,126556>>, <<126558,126558>>,
    <<126560,126560>>, <<126563,126563>>, <<126565,126566>>, <<126571,126571>>,
    <<126579,126579>>, <<126584,126584>>, <<126589,126589>>, <<126591,126591>>,
    <<126602,126602>>, <<126620,126624>>, <<126628,126628>>, <<126634,126634>>,
    <<126652,126703>>, <<126706,126975>>, <<127020,127023>>, <<127124,127135>>,
    <<127151,127152>>, <<127168,127168>>, <<127184,127184>>, <<127222,127231>>,
    <<127406,127461>>, <<127491,127503>>, <<127548,127551>>, <<127561,127567>>,
    <<127570,127583>>, <<127590,127743>>, <<128728,128732>>, <<128749,128751>>,
    <<128765,128767>>, <<128884,128895>>, <<128985,128991>>, <<129004,129007>>,
    <<129009,129023>>, <<129036,129039>>, <<129096,129103>>, <<129114,129119>>,
    <<129160,129167>>, <<129198,129199>>, <<129202,129279>>, <<129620,129631>>,
    <<129646,129647>>, <<129653,129655>>, <<129661,129663>>, <<129671,129679>>,
    <<129709,129711>>, <<129723,129727>>, <<129734,129743>>, <<129754,129759>>,
    <<129768,129775>>, <<129783,129791>>, <<129939,129939>>, <<129995,130031>>,
    <<130042,131071>>, <<173792,173823>>, <<177977,177983>>, <<178206,178207>>,
    <<183970,183983>>, <<191457,194559>>, <<195102,196607>>, <<201547,917759>>,
    <<918000,1114111>>>>

\* Py_UNICODE_ISPRINTABLE
IsPrintable(n) == ~(\E i \in 1..Len(NonPrintable) : NonPrintable[i][1] <= n /\ n <= NonPrintable[i][2])

\* n in exactly width lower-case hexadecimal digits, as the escapes of repr() write it
RECURSIVE Power(_, _)
Power(b, e) == IF e = 0 THEN 1 ELSE b * Power(b, e - 1)
HexEscape(n, width) ==
  [i \in 1..width |-> HexLower[((n \div Power(16, width - i)) % 16) + 1]]

\* repr() of one character of a text quoted with q (unicode_repr of CPython): the
\* quote and the backslash get a backslash, tab, newline and carriage return their
\* letter, every other character that is not printable a \x, \u or \U escape
ReprChar(c, q) ==
  IF c = q \/ c = "U+005C" THEN <<"U+005C", c>>
  ELSE IF c = "\t" THEN <<"U+005C", "t">>
  ELSE IF c = "\n" THEN <<"U+005C", "n">>
  ELSE IF c = "\r" THEN <<"U+005C", "r">>
  ELSE LET n == Ord(c)
       IN  IF n < 32 \/ n = 127 THEN <<"U+005C", "x">> \o HexEscape(n, 2)
           ELSE IF n < 127 \/ IsPrintable(n) THEN <<c>>
           ELSE IF n <= 255 THEN <<"U+005C", "x">> \o HexEscape(n, 2)
           ELSE IF n <= 65535 THEN <<"U+005C", "u">> \o HexEscape(n, 4)
           ELSE <<"U+005C", "U">> \o HexEscape(n, 8)

RECURSIVE ReprChars(_, _)
ReprChars(t, q) ==
  IF t = <<>> THEN <<>>
  ELSE IF Len(t) = 1 THEN ReprChar(t[1], q)
  ELSE ReprChars(SubSeq(t, 1, Len(t) \div 2), q)
         \o ReprChars(SubSeq(t, (Len(t) \div 2) + 1, Len(t)), q)

\* repr() of a text: in single quotes, in double quotes when it holds a single
\* quote and no double quote
ReprText(t) ==
  LET q == IF (\E i \in 1..Len(t) : t[i] = "'") /\ ~(\E i \in 1..Len(t) : t[i] = "U+0022")
           THEN "U+0022" ELSE "'"
  IN  <<q>> \o ReprChars(t, q) \o <<q>>

ReprResponseHead ==
  <<"R","e","q","u","e","s","t","R","e","s","p","o","n","s","e","(","d","a","t","a","=">>
ReprResponseOrig ==
  <<","," ","o","r","i","g","i","n","a","l","_","r","e","q","u","e","s","t","=">>
ReprResponseId ==
  <<","," ","r","e","q","u","e","s","t","_","i","d","=">>
ReprRequestHead ==
  <<"C","l","o","t","h","i","n","g","C","o","n","c","e","p","t","A","p","p","r","o","v","a","l",
    "R","e","q","u","e","s","t","(","r","e","q","u","e","s","t","_","i","d","=">>
ReprRequestSource ==
  <<","," ","s","o","u","r","c","e","_","e","x","e","c","u","t","o","r","_","i","d","=">>
ReprRequestQuestion ==
  <<","," ","q","u","e","s","t","i","o","n","=">>
ReprRequestContext ==
  <<","," ","c","o","n","t","e","x","t","=">>
\* ", analysis_content=", the last field of the request and of the decision
ReprContent ==
  <<","," ","a","n","a","l","y","s","i","s","_","c","o","n","t","e","n","t","=">>
ReprDecisionHead ==
  <<"Z","a","v","a","A","p","p","r","o","v","a","l","D","e","c","i","s","i","o","n","(","a","p",
    "p","r","o","v","e","d","=">>
ReprDecisionFeedback ==
  <<","," ","f","e","e","d","b","a","c","k","=">>
ReprObject ==
  <<"<","o","b","j","e","c","t"," ","o","b","j","e","c","t",">">>

\* repr(v): a text in quotes, None, a number, {}, the dataclass form
\* TypeName(field=repr, ...), and for a plain object the default form (the
\* address it ends with is left out).
RECURSIVE Repr(_)
Repr(v) ==
  CASE v.kind = "str" -> ReprText(v.text)
    [] v.kind = "NoneType" -> StrNone
    [] v.kind = "int" -> Decimal(v.value)
    [] v.kind = "dict" -> <<"{", "}">>
    [] v.kind = "RequestResponse" ->
         ReprResponseHead \o Repr(v.data) \o ReprResponseOrig
           \o Repr(v.original_request) \o ReprResponseId \o Repr(v.request_id) \o <<")">>
    [] v.kind = "ClothingConceptApprovalRequest" ->
         ReprRequestHead \o Repr(v.request_id) \o ReprRequestSource
           \o Repr(v.source_executor_id) \o ReprRequestQuestion \o Repr(v.question)
           \o ReprRequestContext \o Repr(v.context) \o ReprContent
           \o Repr(v.analysis_content) \o <<")">>
    [] v.kind = "ZavaApprovalDecision" ->
         ReprDecisionHead \o (IF v.approved THEN StrTrue ELSE StrFalse)
           \o ReprDecisionFeedback \o Repr(v.feedback) \o ReprContent
           \o Repr(v.analysis_content) \o <<")">>
    [] OTHER -> ReprObject

\* ClothingConceptApprovalRequest.__str__: the fixed text around the question
\* and the context, stripped
RequestStrHead ==
  <<"\n","Z","A","V","A"," ","C","L","O","T","H","I","N","G"," ","C","O","N","C","E","P","T",
    " ","A","P","P","R","O","V","A","L"," ","R","E","Q","U","E","S","T","\n","\n">>
RequestStrMid ==
  <<"\n","\n","C","O","N","C","E","P","T"," ","A","N","A","L","Y","S","I","S"," ","C","O","N",
    "T","E","X","T",":","\n">>
RequestStrTail ==
  <<"\n","\n","P","l","e","a","s","e"," ","r","e","v","i","e","w"," ","t","h","e"," ","a","b",
    "o","v","e"," ","a","n","a","l","y","s","i","s"," ","a","n","d"," ","d","e","c","i","d","e",
    " ","w","h","e","t","h","e","r"," ","t","o"," ","a","p","p","r","o","v","e"," ","t","h","i",
    "s"," ","c","l","o","t","h","i","n","g","\n","c","o","n","c","e","p","t"," ","f","o","r",
    " ","d","e","v","e","l","o","p","m","e","n","t"," ","o","r"," ","r","e","j","e","c","t"," ",
    "i","t"," ","f","o","r"," ","r","e","c","o","n","s","i","d","e","r","a","t","i","o","n",".",
    "\n","\n","R","e","s","p","o","n","s","e"," ","O","p","t","i","o","n","s",":","\n","-"," ",
    "T","y","p","e"," ","'","y","e","s","'"," ","t","o"," ","A","P","P","R","O","V","E"," ","t",
    "h","e"," ","c","o","n","c","e","p","t"," ","f","o","r"," ","d","e","v","e","l","o","p","m",
    "e","n","t","\n","-"," ","T","y","p","e"," ","'","n","o","'"," ","t","o"," ","R","E","J",
    "E","C","T"," ","t","h","e"," ","c","o","n","c","e","p","t","\n","\n","Y","o","u","r"," ",
    "d","e","c","i","s","i","o","n"," ","w","i","l","l"," ","d","e","t","e","r","m","i","n","e",
    " ","t","h","e"," ","n","e","x","t"," ","s","t","e","p","s"," ","i","n"," ","o","u","r"," ",
    "e","v","a","l","u","a","t","i","o","n"," ","p","r","o","c","e","s","s",".","\n"," "," ",
    " "," "," "," "," "," ">>

DecisionStrHead ==
  <<"D","e","c","i","s","i","o","n",":"," ">>
StrApproved ==
  <<"A","P","P","R","O","V","E","D">>
StrRejected ==
  <<"R","E","J","E","C","T","E","D">>
DecisionStrDash ==
  <<" ","-"," ">>

\* str(v): the text itself, the __str__ of the two dataclasses that define one,
\* the repr otherwise.
Str(v) ==
  CASE v.kind = "str" -> v.text
    [] v.kind = "ClothingConceptApprovalRequest" ->
         Strip(RequestStrHead \o v.question.text \o RequestStrMid \o v.context.text
                 \o RequestStrTail)
    [] v.kind = "ZavaApprovalDecision" ->
         DecisionStrHead \o (IF v.approved THEN StrApproved ELSE StrRejected)
           \o (IF Truthy(v.feedback) THEN DecisionStrDash \o v.feedback.text ELSE <<>>)
    [] OTHER -> Repr(v)

\* ------------------------------------------------------------ token lists
T_yes == <<"y","e","s">>
T_y == <<"y">>
T_approve == <<"a","p","p","r","o","v","e">>
T_approved == <<"a","p","p","r","o","v","e","d">>
T_no == <<"n","o">>
T_n == <<"n">>
T_reject == <<"r","e","j","e","c","t">>
T_rejected == <<"r","e","j","e","c","t","e","d">>
T_deny == <<"d","e","n","y">>
T_denied == <<"d","e","n","i","e","d">>

\* Fault variant: an empty reply counts as approval.
RouteApprovedTokensLax == {T_yes, T_y, T_approve, T_approved, <<>>}
\* route_decision: ["yes", "y", "approve", "approved"]
RouteApprovedTokens == {T_yes, T_y, T_approve, T_approved}

\* Fault variant: 'approved' missing from the condition's list.
ApprovalTokensShort == {T_yes, T_y, T_approve}

\* concept_approval_condition: ['yes', 'y', 'approve', 'approved']
ApprovalTokens == {T_yes, T_y, T_approve, T_approved}

\* Fault variant: 'y' listed among the rejection tokens too.
RejectionTokensWithY == {T_no, T_n, T_reject, T_rejected, T_deny, T_denied, T_y}
\* concept_rejection_condition: ['no', 'n', 'reject', 'rejected', 'deny', 'denied']
RejectionTokens == {T_no, T_n, T_reject, T_rejected, T_deny, T_denied}

\* ------------------------------------------- ZavaConceptApprovalManager
NoAnalysisProvided ==
  <<"N","o"," ","a","n","a","l","y","s","i","s"," ","p","r","o","v","i","d","e","d">>

\* analysis_text = str(analysis_results) if analysis_results else "No analysis provided"
AnalysisText(analysis_results) ==
  IF Truthy(analysis_results) THEN Str(analysis_results) ELSE NoAnalysisProvided

\* approval_context: the f-string around the analysis text, stripped
ContextHead ==
  <<"\n"," "," "," "," ","U+C885","U+D569"," ","U+C758","U+B958"," ","U+CEE8","U+C149"," ",
    "U+BD84","U+C11D"," ","U+C694","U+C57D","\n","\n"," "," "," "," ","U+D328","U+C158"," ",
    "U+BD84","U+C11D"," ","U+C5D0","U+C774","U+C804","U+D2B8","U+B4E4","U+C774"," ","U+C774",
    " ","U+C758","U+B958"," ","U+CEE8","U+C149"," ","U+C81C","U+CD9C","U+C5D0"," ","U+B300",
    "U+D55C"," ","U+D3C9","U+AC00","U+B97C"," ","U+C644","U+B8CC","U+D588","U+C2B5","U+B2C8",
    "U+B2E4",".","\n"," "," "," "," ","U+C544","U+B798","U+B294"," ","U+C2DC","U+C7A5"," ",
    "U+C7A0","U+C7AC","U+B825",","," ","U+B514","U+C790","U+C778"," ","U+C7A5","U+C810",","," ",
    "U+C0DD","U+C0B0"," ","U+AC00","U+B2A5","U+C131","U+C744"," ","U+B2E4","U+B8E8","U+B294",
    " ","U+D1B5","U+D569"," ","U+BD84","U+C11D","U+C785","U+B2C8","U+B2E4",":","\n","\n"," ",
    " "," "," ">>
ContextTail ==
  <<"\n","\n"," "," "," "," ","U+C8FC","U+C694"," ","U+ACB0","U+C815"," ","U+C694","U+C18C",":",
    "\n"," "," "," "," ","U+2022"," ","U+D604","U+C7AC"," ","U+D328","U+C158"," ","U+D2B8",
    "U+B80C","U+B4DC","U+C640","U+C758"," ","U+C2DC","U+C7A5"," ","U+C801","U+D569","U+C131",
    "\n"," "," "," "," ","U+2022"," ","U+B514","U+C790","U+C778"," ","U+D601","U+C2E0","U+C131",
    " ","U+BC0F"," ","Z","a","v","a"," ","U+BE0C","U+B79C","U+B4DC"," ","U+C801","U+D569",
    "U+C131","\n"," "," "," "," ","U+2022"," ","U+C0DD","U+C0B0"," ","U+AC00","U+B2A5","U+C131",
    " ","U+BC0F"," ","U+BE44","U+C6A9"," ","U+ACE0","U+B824","U+C0AC","U+D56D","\n"," "," "," ",
    " ","U+2022"," ","U+ACBD","U+C7C1"," ","U+CC28","U+BCC4","U+D654"," ","U+C7A0","U+C7AC",
    "U+B825","\n"," "," "," "," ","U+2022"," ","U+D68C","U+C0AC"," ","U+BAA9","U+D45C","U+C640",
    "U+C758"," ","U+C804","U+B7B5","U+C801"," ","U+C77C","U+CE58","U+C131","\n","\n"," "," ",
    " "," ","U+C774"," ","U+ACB0","U+C815","U+C740"," ","Z","a","v","a","U+AC00"," ","U+CEE8",
    "U+C149"," ","U+AC1C","U+BC1C","U+C744"," ","U+C9C4","U+D589","U+D560","U+C9C0",","," ",
    "U+C544","U+B2C8","U+BA74"," ","U+D5A5","U+D6C4"," ","U+C81C","U+CD9C","U+C744"," ",
    "U+C704","U+D55C","\n"," "," "," "," ","U+AC74","U+C124","U+C801","U+C778"," ","U+D53C",
    "U+B4DC","U+BC31","U+C744"," ","U+C81C","U+ACF5","U+D560","U+C9C0","U+B97C"," ","U+ACB0",
    "U+C815","U+D569","U+B2C8","U+B2E4",".","\n"," "," "," "," "," "," "," "," ">>
ApprovalContext(analysis_text) == Strip(ContextHead \o analysis_text \o ContextTail)

\* question of the request start_approval builds
ApprovalQuestion ==
  <<"U+C704","U+C758"," ","U+C885","U+D569"," ","U+D328","U+C158"," ","U+BD84","U+C11D",
    "U+C744"," ","U+BC14","U+D0D5","U+C73C","U+B85C",","," ","Z","a","v","a","U+AC00"," ",
    "U+C774"," ","U+C758","U+B958"," ","U+CEE8","U+C149","U+C744"," ","U+AC1C","U+BC1C"," ",
    "U+C2B9","U+C778","U+D574","U+C57C"," ","U+D560","U+AE4C","U+C694","?">>

\* Fault variant: the request is sent twice.
StartApprovalSendsTwice(analysis_results) ==
  LET request == ClothingConceptApprovalRequest(
                   PyStr(ApprovalQuestion),
                   PyStr(ApprovalContext(AnalysisText(analysis_results))),
                   PyStr(AnalysisText(analysis_results)))
  IN  <<request, request>>

\* The messages start_approval hands to ctx.send_message, in order.
start_approval(analysis_results) ==
  LET analysis_text == AnalysisText(analysis_results)
      approval_request == ClothingConceptApprovalRequest(
                            PyStr(ApprovalQuestion),
                            PyStr(ApprovalContext(analysis_text)),
                            PyStr(analysis_text))
  IN  <<approval_request>>

\* response.data or ""
DataOrEmpty(response) == IF Truthy(response.data) THEN response.data ELSE PyStr(<<>>)

\* route_decision calls .strip() on (response.data or ""): a truthy data that is
\* not a str has no such method and the handler ends in AttributeError; a falsy
\* data of any type is replaced by "".
RouteRaises(response) == DataOrEmpty(response).kind # "str"

\* Fault variant: the reply is lowercased and not trimmed.
HumanInputUntrimmed(response) == Lower(DataOrEmpty(response).text)
\* human_input = (response.data or "").strip().lower()
HumanInput(response) == Lower(Strip(DataOrEmpty(response).text))

\* Fault variant: the analysis is carried only into an approving decision.
CarriedContentApprovedOnly(response) ==
  IF Truthy(response.original_request) /\ HumanInput(response) \in RouteApprovedTokens
  THEN response.original_request.analysis_content
  ELSE PyStr(<<>>)

\* analysis_content = response.original_request.analysis_content
\*                    if response.original_request else ""
CarriedContent(response) ==
  IF Truthy(response.original_request)
  THEN response.original_request.analysis_content
  ELSE PyStr(<<>>)

\* The messages route_decision hands to ctx.send_message, in order.
route_decision(response) ==
  LET human_input == HumanInput(response)
      approved == human_input \in RouteApprovedTokens
      analysis_content == CarriedContent(response)
      decision == ZavaApprovalDecision(approved, DataOrEmpty(response), analysis_content)
  IN  <<decision>>

\* ------------------------------------------------------ edge conditions
\* Fault variant: a nested response is not unwrapped.
ResponseTextFlat(decision) == Strip(Lower(Str(decision.data)))
\* response_text of the RequestResponse branch: one nested level is unwrapped.
ResponseText(decision) ==
  IF HasAttr(decision.data, "data")
  THEN Strip(Lower(Str(decision.data.data)))
  ELSE Strip(Lower(Str(decision.data)))

concept_approval_condition(decision) ==
  IF HasAttr(decision, "data") THEN ResponseText(decision) \in ApprovalTokens
  ELSE IF decision.kind = "str" THEN Strip(Lower(decision.text)) \in ApprovalTokens
  ELSE IF decision.kind = "ZavaApprovalDecision" THEN decision.approved
  ELSE IF decision.kind = "ClothingConceptApprovalRequest" THEN FALSE
  ELSE IF HasAttr(decision, "approved") THEN decision.approved
  ELSE FALSE

\* Fault variant: an unknown value is not rejected either.
concept_rejection_condition_default_false(decision) ==
  IF HasAttr(decision, "data") THEN ResponseText(decision) \in RejectionTokens
  ELSE IF decision.kind = "str" THEN Strip(Lower(decision.text)) \in RejectionTokens
  ELSE IF decision.kind = "ZavaApprovalDecision" THEN ~decision.approved
  ELSE IF decision.kind = "ClothingConceptApprovalRequest" THEN FALSE
  ELSE IF HasAttr(decision, "approved") THEN ~decision.approved
  ELSE FALSE

\* Fault variant: rejection as the complement of approval.
concept_rejection_condition_complement(decision) ==
  IF HasAttr(decision, "data") THEN ResponseText(decision) \notin ApprovalTokens
  ELSE IF decision.kind = "str" THEN Strip(Lower(decision.text)) \notin ApprovalTokens
  ELSE IF decision.kind = "ZavaApprovalDecision" THEN ~decision.approved
  ELSE IF decision.kind = "ClothingConceptApprovalRequest" THEN TRUE
  ELSE IF HasAttr(decision, "approved") THEN ~decision.approved
  ELSE TRUE

concept_rejection_condition(decision) ==
  IF HasAttr(decision, "data") THEN ResponseText(decision) \in RejectionTokens
  ELSE IF decision.kind = "str" THEN Strip(Lower(decision.text)) \in RejectionTokens
  ELSE IF decision.kind = "ZavaApprovalDecision" THEN ~decision.approved
  ELSE IF decision.kind = "ClothingConceptApprovalRequest" THEN FALSE
  ELSE IF HasAttr(decision, "approved") THEN ~decision.approved
  ELSE TRUE

\* ------------------------------------------- ZavaFashionReportGenerator
\* enumerate(concept_elements[:10], 1): the listing stops after ten elements.
TopLimit == 10

\* 'key' in d and d.get(key, default) on a dict, a record whose fields are its keys
HasKey(d, key) == key \in DOMAIN d
SlideElements(slide) ==
  IF HasKey(slide, "concept_elements") THEN slide.concept_elements ELSE <<>>

\* concept_elements = []; for slide in slides: concept_elements.extend(...)
RECURSIVE CollectElements(_)
CollectElements(slides) ==
  IF slides = <<>> THEN <<>>
  ELSE SlideElements(Head(slides)) \o CollectElements(Tail(slides))

\* concept_elements[:10]
FirstElements(concept_elements) ==
  SubSeq(concept_elements, 1,
         IF Len(concept_elements) < TopLimit THEN Len(concept_elements) ELSE TopLimit)

PlaceholderLine == [line |-> "no specific design elements identified"]

\* The lines appended under the "key design elements" heading.
ElementLines(concept_data) ==
  IF HasKey(concept_data, "slides")
  THEN LET concept_elements == CollectElements(concept_data.slides)
           top == FirstElements(concept_elements)
       IN  IF concept_elements # <<>>
           THEN [i \in 1..Len(top) |-> [line |-> "numbered", i |-> i, element |-> top[i]]]
           ELSE <<PlaceholderLine>>
  ELSE <<>>

\* d.get(key, default)
DictGet(d, key, default) == IF HasKey(d, key) THEN d[key] ELSE default

\* concept_data.get('concept_file_name', ...): the default stands for the Korean
\* text for "unknown" in the source
UnknownFileName == "[unknown]"
\* {}: the default of concept_data.get('concept_summary', {})
EmptySummary == <<>>

\* The report text, as its parts in order: the heading block (file name, the
\* optional feedback line, slide and element counts read with .get), the element
\* lines, and the fixed sections around the three analysis texts.
generate_approved_concept_report(concept_data, market_analysis, design_analysis, production_analysis, approval_feedback) ==
  <<[line |-> "heading",
     file_name |-> DictGet(concept_data, "concept_file_name", UnknownFileName),
     feedback_line |-> IF approval_feedback # ""
                       THEN <<"[additional comments] ", approval_feedback>>
                       ELSE <<>>,
     total_slides |-> DictGet(concept_data, "total_slides", 0),
     total_concept_elements |->
       DictGet(DictGet(concept_data, "concept_summary", EmptySummary),
               "total_concept_elements", 0)]>>
  \o ElementLines(concept_data)
  \o <<[line |-> "sections", market |-> market_analysis, design |-> design_analysis,
        production |-> production_analysis]>>

\* The exception classes of Python (builtins of 3.11, and io.UnsupportedOperation),
\* each with its direct base classes.
ExceptionBases ==
  [c \in {"FloatingPointError", "OverflowError", "ZeroDivisionError"} |->
             {"ArithmeticError"}]
  @@ [c \in {"BaseExceptionGroup", "Exception", "GeneratorExit", "KeyboardInterrupt",
             "SystemExit"} |-> {"BaseException"}]
  @@ [c \in {"ExceptionGroup"} |-> {"BaseExceptionGroup", "Exception"}]
  @@ [c \in {"BrokenPipeError", "ConnectionAbortedError", "ConnectionRefusedError",
             "ConnectionResetError"} |-> {"ConnectionError"}]
  @@ [c \in {"ArithmeticError", "AssertionError", "AttributeError", "BufferError",
             "EOFError", "ImportError", "LookupError", "MemoryError", "NameError",
             "OSError", "ReferenceError", "RuntimeError", "StopAsyncIteration",
             "StopIteration", "SyntaxError", "SystemError", "TypeError",
             "ValueError", "Warning"} |-> {"Exception"}]
  @@ [c \in {"ModuleNotFoundError"} |-> {"ImportError"}]
  @@ [c \in {"TabError"} |-> {"IndentationError"}]
  @@ [c \in {"IndexError", "KeyError"} |-> {"LookupError"}]
  @@ [c \in {"UnboundLocalError"} |-> {"NameError"}]
  @@ [c \in {"BlockingIOError", "ChildProcessError", "ConnectionError",
             "FileExistsError", "FileNotFoundError", "InterruptedError",
             "IsADirectoryError", "NotADirectoryError", "PermissionError",
             "ProcessLookupError", "TimeoutError"} |-> {"OSError"}]
  @@ [c \in {"UnsupportedOperation"} |-> {"OSError", "ValueError"}]
  @@ [c \in {"NotImplementedError", "RecursionError"} |-> {"RuntimeError"}]
  @@ [c \in {"IndentationError"} |-> {"SyntaxError"}]
  @@ [c \in {"UnicodeDecodeError", "UnicodeEncodeError", "UnicodeTranslateError"} |->
             {"UnicodeError"}]
  @@ [c \in {"UnicodeError"} |-> {"ValueError"}]
  @@ [c \in {"BytesWarning", "DeprecationWarning", "EncodingWarning",
             "FutureWarning", "ImportWarning", "PendingDeprecationWarning",
             "ResourceWarning", "RuntimeWarning", "SyntaxWarning",
             "UnicodeWarning", "UserWarning"} |-> {"Warning"}]
  @@ [c \in {"BaseException"} |-> {}]

\* issubclass(c, base)
RECURSIVE IsSubclass(_, _)
IsSubclass(c, base) ==
  \/ c = base
  \/ c \in DOMAIN ExceptionBases /\ \E b \in ExceptionBases[c] : IsSubclass(b, base)

\* except Exception: the classes the handler of save_report_to_file catches
CaughtByExcept == {c \in DOMAIN ExceptionBases : IsSubclass(c, "Exception")}

\* filename = f"{filename_prefix}_{timestamp}.md"
ReportFilename(filename_prefix, timestamp) == <<filename_prefix, "_", timestamp, ".md">>

\* self.company_name
CompanyName == "Zava"

\* One call of save_report_to_file under the faults of its environment:
\* fault.at is the file operation that fails ("none", "open", "write" or "close")
\* and fault.exc its exception class; fault.print_saved is the exception the
\* print inside the try raises and fault.print_error the one the print inside
\* the handler raises ("none" when standard output takes the line).
\* Gives the value returned, the exception that leaves the call ("none" when it
\* returns), the file operations performed in order, the lines printed, and the
\* file system afterwards: open(filename, 'w') creates or truncates the file, and
\* the with statement closes whatever was opened.
save_report_to_file(fs, report_content, filename_prefix, report_type, timestamp, fault) ==
  LET filename == ReportFilename(filename_prefix, timestamp)
      written ==
        CASE fault.at = "none" -> [f \in {filename} |-> report_content] @@ fs
          [] fault.at = "open" -> fs
          [] OTHER -> [f \in {filename} |-> "[incomplete]"] @@ fs
      io == IF fault.at = "open" THEN <<"open">> ELSE <<"open", "write", "close">>
      \* the exception that ends the try block
      e == IF fault.at # "none" THEN fault.exc ELSE fault.print_saved
      error_msg == <<"Error saving ", report_type, " report: ", e>>
  IN  IF e = "none"
      THEN [returned |-> filename, raised |-> "none", io |-> io, fs |-> written,
            printed |-> <<<<CompanyName, " ", report_type, " report saved to: ">> \o filename>>]
      ELSE IF e \notin CaughtByExcept
      THEN [returned |-> <<>>, raised |-> e, io |-> io, fs |-> written, printed |-> <<>>]
      ELSE IF fault.print_error = "none"
      THEN [returned |-> error_msg, raised |-> "none", io |-> io, fs |-> written,
            printed |-> <<error_msg>>]
      ELSE [returned |-> <<>>, raised |-> fault.print_error, io |-> io, fs |-> written,
            printed |-> <<>>]

\* ================================================================ state
VARIABLES
  sent,             \* messages the manager gave ctx.send_message, oldest first
  calls,            \* handler invocations of the manager so far, oldest first
  awaiting,         \* positions in sent of the requests the human has not answered
  inflight,         \* responses delivered to the manager and not yet handled
  value,            \* the value an edge condition is asked about
  cstage,           \* where the classification of value stands
  decision_out,     \* what route_decision sent for value
  approved_result,  \* concept_approval_condition's answer
  rejected_result,  \* concept_rejection_condition's answer
  response_result,  \* both answers on the response, kept when route_decision takes it
  concept_data,     \* metadata of the pitch deck
  feedback_in,      \* approval feedback given to the report
  rstage,           \* where the report stands
  report,           \* the rendered report
  files,            \* the file system: filename -> content
  save_call,        \* the arguments and the fault of the save_report_to_file call
  save_result       \* what save_report_to_file did

vars == <<sent, calls, awaiting, inflight, value, cstage, decision_out, approved_result,
          rejected_result, response_result, concept_data, feedback_in, rstage, report, files, save_call, save_result>>

workflowVars == <<sent, calls, awaiting, inflight>>
classifyVars == <<value, cstage, decision_out, approved_result, rejected_result,
                  response_result>>
reportVars == <<concept_data, feedback_in, rstage, report, files, save_call, save_result>>

NoFiles == [f \in {} |-> ""]
NoFault == [at |-> "none", exc |-> "none", print_saved |-> "none", print_error |-> "none"]
NoCall == [prefix |-> "", timestamp |-> "", fault |-> NoFault]
NoSave == [returned |-> <<>>, raised |-> "none", io |-> <<>>, fs |-> NoFiles, printed |-> <<>>]

WorkflowIdle ==
  /\ sent = <<>> /\ calls = <<>> /\ awaiting = {} /\ inflight = {}
ClassifyIdle ==
  /\ value = PyNone /\ cstage = "idle" /\ decision_out = <<>>
  /\ approved_result = FALSE /\ rejected_result = FALSE /\ response_result = <<>>
ReportIdle ==
  /\ concept_data = [concept_file_name |-> "deck.pptx"] /\ feedback_in = ""
  /\ rstage = "idle" /\ report = <<>> /\ files = NoFiles
  /\ save_call = NoCall /\ save_result = NoSave

\* ------------------------------------------------------------- inputs
\* whitespace typed before and after a reply
LeftPadChars == {" ", "\t", "U+00A0"}
RightPadChars == {" ", "\n", "U+000B"}

RECURSIVE SeqsUpTo(_, _)
SeqsUpTo(S, n) ==
  IF n = 0 THEN {<<>>}
  ELSE LET shorter == SeqsUpTo(S, n - 1)
       IN  shorter \cup {Append(t, c) : t \in shorter, c \in S}

LeftPads == SeqsUpTo(LeftPadChars, MaxPad)
RightPads == SeqsUpTo(RightPadChars, MaxPad)

\* Words the human approver types: the ten tokens and replies outside both lists.
Words ==
  { T_yes, T_y, T_approve, T_approved, T_no, T_n, T_reject, T_rejected, T_deny, T_denied,
    <<>>, <<"m","a","y","b","e">>, <<"o","k">>, <<"n","o","p","e">>,
    <<"y","e","s","s">>, <<"n","o","n","e">>, <<"y","e","s"," ","n","o">>,
    <<"d","e","n","U+0130","e","d">>, <<"U+212A">>, <<"y","U+00C9","s">> }

Capitalized(w) == IF w = <<>> THEN <<>> ELSE <<UpperChar(w[1])>> \o Tail(w)
Casings(w) == {w, Upper(w), Capitalized(w)}

PaddedWords ==
  {l \o c \o r : l \in LeftPads, r \in RightPads, c \in UNION {Casings(w) : w \in Words}}

ShortAlphabet == {"y", "Y", "n", "N", "e", "s", "o", " "}
ShortStrings == SeqsUpTo(ShortAlphabet, MaxShort)

ReplyTexts == PaddedWords \cup ShortStrings

SampleRequest == start_approval(PyStr(<<"A">>))[1]

TextValues == {PyStr(t) : t \in ReplyTexts}
\* a response as the human approver returns it: text or None, with or without
\* the request it answers
FlatResponses ==
  {RequestResponse(d, r) : d \in TextValues \cup {PyNone}, r \in {PyNone, SampleRequest}}
\* a response whose data is neither text, None nor a response
OddResponses ==
  {RequestResponse(d, PyNone) :
     d \in {PyEmptyDict, PyInt(0), PyInt(7), SampleRequest,
            ZavaApprovalDecision(TRUE, PyStr(T_yes), PyStr(<<"A">>)),
            ZavaApprovalDecision(TRUE, PyStr(<<>>), PyStr(<<"A">>)),
            ZavaApprovalDecision(FALSE, PyStr(<<>>), PyStr(<<"A">>)),
            [kind |-> "object"]}}
NestedResponses == {RequestResponse(w, PyNone) : w \in {x \in FlatResponses : x.original_request = PyNone}}
TwiceNestedResponses == {RequestResponse(w, PyNone) : w \in NestedResponses}
DecisionValues ==
  {ZavaApprovalDecision(b, PyStr(f), PyStr(<<"A">>)) : b \in BOOLEAN, f \in {<<>>, T_yes, T_no}}
FlaggedValues == {[kind |-> "object", approved |-> b] : b \in BOOLEAN}
UnrecognizedValues == {[kind |-> "object"], PyEmptyDict, PyInt(0), PyInt(7)}

ClassifierValues ==
  TextValues \cup {PyNone} \cup FlatResponses \cup OddResponses \cup NestedResponses \cup TwiceNestedResponses
    \cup DecisionValues \cup {SampleRequest} \cup FlaggedValues \cup UnrecognizedValues

\* analysis payloads of the upstream agents: absent, empty, a text, or a value
\* that is not text
Payloads == {PyNone, PyStr(<<>>), PyStr(<<"A">>), PyEmptyDict, PyInt(7)}

\* replies the human approver gives inside a workflow run
WorkflowReplies ==
  {PyNone, PyStr(<<>>), PyStr(<<" ","Y","E","S","\n">>), PyStr(T_no),
   PyStr(<<"m","a","y","b","e">>)}

ElementsOf(k, n) ==
  IF n = 0 THEN <<>> ELSE [p \in 1..n |-> [slide |-> k, pos |-> p]]

\* slide k of a deck: without a 'concept_elements' key, or with 0..MaxPerSlide elements
SlideChoices(k) ==
  {[slide_number |-> k]} \cup
  {[slide_number |-> k, concept_elements |-> ElementsOf(k, n)] : n \in 0..MaxPerSlide}

RECURSIVE Decks(_)
Decks(n) ==
  IF n = 0 THEN {<<>>}
  ELSE Decks(n - 1) \cup
       {Append(d, sl) : d \in {x \in Decks(n - 1) : Len(x) = n - 1}, sl \in SlideChoices(n)}

ConceptInputs ==
  {[concept_file_name |-> "deck.pptx"],
   [total_slides |-> 3, concept_summary |-> [total_concept_elements |-> 4]]} \cup
  {[concept_file_name |-> "deck.pptx", slides |-> d] : d \in Decks(MaxSlides)}

\* exceptions of open(), write() and close(), and an interrupt of the process
FaultClasses ==
  {"OSError", "FileNotFoundError", "PermissionError", "IsADirectoryError", "ValueError",
   "UnicodeEncodeError", "TypeError", "KeyboardInterrupt"}
\* exceptions of print(): standard output closed, its reader gone, or its encoding
\* without a character of the line
PrintFaultClasses == {"ValueError", "BrokenPipeError", "UnicodeEncodeError"}
\* The faults of one call: a fault of a print is drawn only where the call
\* reaches that print.
Faults ==
  {[at |-> "none", exc |-> "none", print_saved |-> "none", print_error |-> "none"]} \cup
  {[at |-> "none", exc |-> "none", print_saved |-> p, print_error |-> q] :
     p \in PrintFaultClasses, q \in PrintFaultClasses \cup {"none"}} \cup
  {[at |-> a, exc |-> e, print_saved |-> "none", print_error |-> q] :
     a \in {"open", "write", "close"}, e \in FaultClasses \cap CaughtByExcept,
     q \in PrintFaultClasses \cup {"none"}} \cup
  {[at |-> a, exc |-> e, print_saved |-> "none", print_error |-> "none"] :
     a \in {"open", "write", "close"}, e \in FaultClasses \ CaughtByExcept}

\* =========================================================== the workflow
\* The engine hands an analysis payload to start_approval.
StartApproval ==
  /\ Cardinality({i \in 1..Len(calls) : calls[i] = "start_approval"}) < MaxSubmissions
  /\ \E analysis_results \in Payloads :
       LET out == start_approval(analysis_results)
           k == Len(calls) + 1
           new == [i \in 1..Len(out) |-> [call |-> k, msg |-> out[i], re |-> 0]]
       IN  /\ sent' = sent \o new
           /\ awaiting' = awaiting \cup
                {Len(sent) + i : i \in {j \in 1..Len(out) :
                                          out[j].kind = "ClothingConceptApprovalRequest"}}
  /\ calls' = Append(calls, "start_approval")
  /\ UNCHANGED <<inflight, classifyVars, reportVars>>

\* The human approver answers one outstanding request: the engine pairs the reply
\* with the request it answers and delivers the response to the manager.
HumanReply ==
  /\ \E p \in awaiting, reply \in WorkflowReplies :
       /\ awaiting' = awaiting \ {p}
       /\ inflight' = inflight \cup
            {[request_pos |-> p, response |-> RequestResponse(reply, sent[p].msg)]}
  /\ UNCHANGED <<sent, calls, classifyVars, reportVars>>

\* The engine hands a delivered response to route_decision.
RouteDecision ==
  /\ \E r \in inflight :
       LET out == route_decision(r.response)
           k == Len(calls) + 1
           new == [i \in 1..Len(out) |-> [call |-> k, msg |-> out[i], re |-> r.request_pos]]
       IN  /\ ~RouteRaises(r.response)
           /\ sent' = sent \o new
           /\ inflight' = inflight \ {r}
  /\ calls' = Append(calls, "route_decision")
  /\ UNCHANGED <<awaiting, classifyVars, reportVars>>

Init == WorkflowIdle /\ ClassifyIdle /\ ReportIdle
Next == StartApproval \/ HumanReply \/ RouteDecision
Spec == Init /\ [][Next]_vars

\* ====================================================== the edge conditions
\* Both conditions are asked about the same value.
Classify ==
  /\ cstage = "input"
  /\ approved_result' = concept_approval_condition(value)
  /\ rejected_result' = concept_rejection_condition(value)
  /\ cstage' = "classified"
  /\ UNCHANGED <<value, decision_out, response_result, workflowVars, reportVars>>

\* route_decision is given the value, a response; it sends its decision or ends
\* in the AttributeError of RouteRaises.
Finalize ==
  /\ cstage = "input"
  /\ value.kind = "RequestResponse"
  /\ IF RouteRaises(value)
     THEN cstage' = "raised" /\ decision_out' = <<>>
     ELSE cstage' = "finalized" /\ decision_out' = route_decision(value)
  /\ UNCHANGED <<value, approved_result, rejected_result, response_result,
                 workflowVars, reportVars>>

\* route_decision is given a response the conditions were already asked about:
\* their answers on the response are kept beside the decision it sends.
FinalizeClassified ==
  /\ cstage = "classified"
  /\ value.kind = "RequestResponse"
  /\ response_result' = <<[approved |-> approved_result, rejected |-> rejected_result]>>
  /\ IF RouteRaises(value)
     THEN cstage' = "raised" /\ decision_out' = <<>>
     ELSE cstage' = "finalized" /\ decision_out' = route_decision(value)
  /\ UNCHANGED <<value, approved_result, rejected_result, workflowVars, reportVars>>

\* Both conditions are asked about the decision route_decision sent.
GateDecision ==
  /\ cstage = "finalized"
  /\ approved_result' = concept_approval_condition(decision_out[1])
  /\ rejected_result' = concept_rejection_condition(decision_out[1])
  /\ cstage' = "gated"
  /\ UNCHANGED <<value, decision_out, response_result, workflowVars, reportVars>>

InitClassify ==
  /\ WorkflowIdle /\ ReportIdle
  /\ value \in ClassifierValues
  /\ cstage = "input" /\ decision_out = <<>>
  /\ approved_result = FALSE /\ rejected_result = FALSE /\ response_result = <<>>
NextClassify == Classify \/ Finalize \/ FinalizeClassified \/ GateDecision
SpecClassify == InitClassify /\ [][NextClassify]_vars

\* ===================================================== the report generator
Render ==
  /\ rstage = "input"
  /\ report' = generate_approved_concept_report(concept_data, "[market]", "[design]",
                                                "[production]", feedback_in)
  /\ rstage' = "rendered"
  /\ UNCHANGED <<concept_data, feedback_in, files, save_call, save_result,
                 workflowVars, classifyVars>>

Save ==
  /\ rstage = "rendered"
  /\ \E prefix \in {"approved_report", "rejection_email"}, timestamp \in {"20240101_120000"},
        fault \in Faults :
       LET res == save_report_to_file(files, report, prefix, "approved concept",
                                      timestamp, fault)
       IN  /\ save_call' = [prefix |-> prefix, timestamp |-> timestamp, fault |-> fault]
           /\ save_result' = res
           /\ files' = res.fs
           /\ rstage' = IF res.raised = "none" THEN "saved" ELSE "aborted"
  /\ UNCHANGED <<concept_data, feedback_in, report, workflowVars, classifyVars>>

InitReport ==
  /\ WorkflowIdle /\ ClassifyIdle
  /\ concept_data \in ConceptInputs
  /\ feedback_in \in {"", "strong concept"}
  /\ rstage = "input" /\ report = <<>> /\ files = NoFiles
  /\ save_call = NoCall /\ save_result = NoSave
NextReport == Render \/ Save
SpecReport == InitReport /\ [][NextReport]_vars

\* ================================================================ claims
AffirmativeWords == {T_yes, T_y, T_approve, T_approved}
NegativeWords == {T_no, T_n, T_reject, T_rejected, T_deny, T_denied}

\* text t is the word w in some letter case between two runs of whitespace
IsWord(t, w) ==
  \E a \in 0..Len(t) :
    \E b \in a..Len(t) :
      /\ \A i \in 1..a : t[i] \in Whitespace
      /\ \A i \in (b + 1)..Len(t) : t[i] \in Whitespace
      /\ Lower(SubSeq(t, a + 1, b)) = w

\* the reply v (a str or None) is an affirmative / a negative token
Affirmative(v) == v.kind = "str" /\ \E w \in AffirmativeWords : IsWord(v.text, w)
Negative(v) == v.kind = "str" /\ \E w \in NegativeWords : IsWord(v.text, w)

Finalized == cstage \in {"finalized", "gated"}

\* C1: the Decision route_decision sends has approved = TRUE if and only if the
\* reply, trimmed and lowercased, is one of yes, y, approve, approved; None, the
\* empty string, whitespace, a negative token and any other text give FALSE.
C1_ApprovedIffAffirmative ==
  Finalized =>
    /\ Len(decision_out) = 1
    /\ decision_out[1].kind = "ZavaApprovalDecision"
    /\ decision_out[1].approved = Affirmative(value.data)

C1_Witness ==
  /\ cstage = "finalized"
  /\ value.data = PyStr(<<"U+00A0","Y","E","S","U+000B">>)
  /\ decision_out[1].approved

\* C2: for an affirmative token in any letter case and with surrounding
\* whitespace, concept_approval_condition is TRUE and concept_rejection_condition
\* FALSE on the Decision of route_decision; for a negative token it is the inverse.
C2_TokensGateTheDecision ==
  cstage = "gated" =>
    /\ Affirmative(value.data) => approved_result /\ ~rejected_result
    /\ Negative(value.data) => ~approved_result /\ rejected_result

C2_Witness ==
  /\ cstage = "gated"
  /\ value.data = PyStr(<<"\t","D","E","N","I","E","D">>)
  /\ ~approved_result /\ rejected_result

IsDecisionEntry(i) == sent[i].msg.kind = "ZavaApprovalDecision"
IsRequestEntry(i) == sent[i].msg.kind = "ClothingConceptApprovalRequest"

\* C3: the analysis_content of a Decision is the analysis_content of the request
\* start_approval sent and the response answers, whatever the reply; the response
\* in flight carries it unchanged too.
C3_AnalysisContentPreserved ==
  /\ \A i \in 1..Len(sent) :
       IsDecisionEntry(i) =>
         /\ sent[i].re \in 1..(i - 1)
         /\ sent[i].msg.analysis_content = sent[sent[i].re].msg.analysis_content
  /\ \A r \in inflight :
       r.response.original_request.analysis_content = sent[r.request_pos].msg.analysis_content

C3_Witness ==
  \E i \in 1..Len(sent) :
    /\ IsDecisionEntry(i)
    /\ ~sent[i].msg.approved
    /\ sent[i].msg.feedback = PyStr(<<>>)
    /\ sent[i].msg.analysis_content = PyStr(<<"A">>)
    /\ sent[sent[i].re].msg.analysis_content = PyStr(<<"A">>)

\* a value of no recognized shape: no data field, not text, not a Decision, not an
\* ApprovalRequest, no approved field
UnrecognizedShape(v) ==
  /\ "data" \notin DOMAIN v
  /\ v.kind \notin {"str", "ZavaApprovalDecision", "ClothingConceptApprovalRequest"}
  /\ "approved" \notin DOMAIN v

\* C4: for a value of wholly unrecognized shape concept_approval_condition is
\* FALSE and concept_rejection_condition is TRUE.
C4_UnknownDefaultsToReject ==
  (cstage = "classified" /\ UnrecognizedShape(value)) => ~approved_result /\ rejected_result

C4_Witness ==
  /\ cstage = "classified"
  /\ value = [kind |-> "object"]
  /\ ~approved_result /\ rejected_result

IsResponse(v) == v.kind = "RequestResponse"

\* C5: on a response whose data is itself a response, both conditions match the
\* inner data's text against their tokens; a response that is not nested is matched
\* on its own data; a second level of nesting is not unwrapped, so a response
\* nested twice matches no token.
C5_OneLevelUnwrapped ==
  (cstage = "classified" /\ IsResponse(value)) =>
    IF IsResponse(value.data)
    THEN IF IsResponse(value.data.data)
         THEN ~approved_result /\ ~rejected_result
         ELSE /\ approved_result = Affirmative(value.data.data)
              /\ rejected_result = Negative(value.data.data)
    ELSE /\ approved_result = Affirmative(value.data)
         /\ rejected_result = Negative(value.data)

C5_Witness ==
  /\ cstage = "classified"
  /\ value = RequestResponse(RequestResponse(PyStr(<<"Y","E","S">>), PyNone), PyNone)
  /\ approved_result /\ ~rejected_result

\* the data a text-path value is matched on: the text itself, a response's data,
\* or the inner data of a nested response
MatchedData(v) ==
  IF ~IsResponse(v) THEN v
  ELSE IF IsResponse(v.data) THEN v.data.data
  ELSE v.data

TextPath(v) == v.kind = "str" \/ IsResponse(v)

\* C6: both conditions are FALSE for an ApprovalRequest and for a text or a
\* response whose token is in neither token list; the classification completes.
C6_NeitherOutcome ==
  (/\ cstage = "classified"
   /\ \/ value.kind = "ClothingConceptApprovalRequest"
      \/ TextPath(value) /\ ~Affirmative(MatchedData(value)) /\ ~Negative(MatchedData(value)))
  => ~approved_result /\ ~rejected_result

C6_Witness ==
  /\ cstage = "classified"
  /\ value = PyStr(<<"m","a","y","b","e">>)
  /\ ~approved_result /\ ~rejected_result

SentBy(k) == {i \in 1..Len(sent) : sent[i].call = k}
Requests == {i \in 1..Len(sent) : IsRequestEntry(i)}
Decisions == {i \in 1..Len(sent) : IsDecisionEntry(i)}

\* C7: every start_approval call sends exactly one ApprovalRequest and no
\* Decision, every route_decision call exactly one Decision; a Decision comes
\* after the request it answers, no request gets two, and once every request is
\* answered and handled there is one Decision per request.
C7_OneDecisionPerRequest ==
  /\ \A k \in 1..Len(calls) :
       /\ Cardinality(SentBy(k)) = 1
       /\ \A i \in SentBy(k) :
            IF calls[k] = "start_approval" THEN IsRequestEntry(i) ELSE IsDecisionEntry(i)
  /\ \A i \in Decisions : sent[i].re \in Requests /\ sent[i].re < i
  /\ \A i, j \in Decisions : sent[i].re = sent[j].re => i = j
  /\ Cardinality(Decisions) + Cardinality(awaiting) + Cardinality(inflight)
       = Cardinality(Requests)

C7_Witness ==
  /\ awaiting = {} /\ inflight = {}
  /\ Cardinality(Requests) >= 2
  /\ Cardinality(Decisions) = Cardinality(Requests)

Rendered == rstage \in {"rendered", "saved", "aborted"}

\* the concept elements of the metadata, slide by slide
ElementCount(cd) ==
  IF "slides" \in DOMAIN cd
  THEN Len(CollectElements(cd.slides))
  ELSE 0

NumberedLines == {i \in 1..Len(report) : report[i].line = "numbered"}

\* C8: with zero concept elements the report holds the placeholder line; with
\* more than ten it lists the first ten only, numbered in their order across slides.
C8_PlaceholderOrFirstTen ==
  Rendered =>
    /\ ElementCount(concept_data) = 0 =>
         /\ \E i \in 1..Len(report) : report[i] = PlaceholderLine
         /\ NumberedLines = {}
    /\ ElementCount(concept_data) > TopLimit =>
         /\ Cardinality(NumberedLines) = TopLimit
         /\ \A i \in NumberedLines :
              /\ report[i].i = i - 1
              /\ report[i].element = CollectElements(concept_data.slides)[i - 1]

\* the part of C8 the code keeps: metadata that has a 'slides' entry
C8_WithSlidesKey ==
  (Rendered /\ "slides" \in DOMAIN concept_data) =>
    /\ ElementCount(concept_data) = 0 =>
         /\ \E i \in 1..Len(report) : report[i] = PlaceholderLine
         /\ NumberedLines = {}
    /\ ElementCount(concept_data) > TopLimit =>
         /\ Cardinality(NumberedLines) = TopLimit
         /\ \A i \in NumberedLines :
              /\ report[i].i = i - 1
              /\ report[i].element = CollectElements(concept_data.slides)[i - 1]

\* the ways open(), write() and close() fail; an interrupt of the process is not
\* a failure of the file operation
IOFaultClasses ==
  {"OSError", "FileNotFoundError", "PermissionError", "IsADirectoryError", "ValueError",
   "UnicodeEncodeError", "TypeError"}
SaveEnded == rstage \in {"saved", "aborted"}
Count(seq, x) == Cardinality({i \in 1..Len(seq) : seq[i] = x})

\* what C9 says of a call that has ended
SavedOrReported ==
  /\ save_result.raised = "none"
  /\ rstage = "saved"
  /\ Count(save_result.io, "open") = 1
  /\ Count(save_result.io, "write") <= 1
  /\ IF save_call.fault.at = "none"
     THEN /\ save_result.returned = <<save_call.prefix, "_", save_call.timestamp, ".md">>
          /\ files[save_result.returned] = report
     ELSE save_result.returned[1] = "Error saving "

\* C9: save_report_to_file does not raise on an I/O fault: a successful write
\* returns {prefix}_{timestamp}.md; a failed open or write returns a text that
\* begins with 'Error saving', after one attempt, and the call returns normally.
C9_FaultReturnedNotRaised ==
  (SaveEnded /\ save_call.fault.exc \in IOFaultClasses \cup {"none"}) => SavedOrReported

\* the part of C9 the code keeps: a call whose prints standard output takes
C9_WithWorkingStdout ==
  (/\ SaveEnded
   /\ save_call.fault.exc \in IOFaultClasses \cup {"none"}
   /\ save_call.fault.print_saved = "none"
   /\ save_call.fault.print_error = "none")
  => SavedOrReported /\ Len(save_result.printed) = 1

\* C10: for a value of any shape the two conditions are never both TRUE.
C10_NeverBoth ==
  cstage \in {"classified", "gated"} => ~(approved_result /\ rejected_result)

C10_Witness ==
  /\ cstage = "classified"
  /\ value = RequestResponse(PyStr(<<"y"," ">>), SampleRequest)
  /\ approved_result /\ ~rejected_result

\* a response that is not nested, its data a text or None
FlatTextResponse(v) == IsResponse(v) /\ v.data.kind \in {"str", "NoneType"}

\* both conditions were asked about the response and about its decision
GatedBothWays == cstage = "gated" /\ response_result # <<>> /\ FlatTextResponse(value)

\* C11 as stated: on a response that is not nested, with text or None as data,
\* each condition answers the same on the response and on the Decision
\* route_decision builds from it.
C11_GatesAgree ==
  GatedBothWays =>
    /\ approved_result = response_result[1].approved
    /\ rejected_result = response_result[1].rejected

\* C11 as amended: concept_approval_condition answers the same on both;
\* concept_rejection_condition answers the same when the reply is an affirmative
\* or a negative token, and for every other reply (None and the empty string
\* included) it is FALSE on the response and TRUE on the Decision.
C11_GatesAgreeOnTokens ==
  GatedBothWays =>
    /\ approved_result = response_result[1].approved
    /\ IF Affirmative(value.data) \/ Negative(value.data)
       THEN rejected_result = response_result[1].rejected
       ELSE ~response_result[1].rejected /\ rejected_result

C11_Witness ==
  /\ GatedBothWays
  /\ value = RequestResponse(PyStr(<<"m","a","y","b","e">>), PyNone)
  /\ ~approved_result /\ ~response_result[1].approved
  /\ ~response_result[1].rejected /\ rejected_result

====
